---- MODULE Spec2Model ----
(***************************************************************************)
(* The task store (partition folders of the vault), the plan executor      *)
(* (RalphWiggumLoop), the approval gate (ApprovalWorkflow), the            *)
(* orchestrator's process_task, and the human who decides on approval      *)
(* artifacts.                                                              *)
(***************************************************************************)
EXTENDS Integers, Sequences, FiniteSets, TLC

VARIABLES
    folder,                  \* partition folder -> set of file names in it
    content,                 \* approval artifact name -> its text (lines)
    planFile,                \* task name -> Plans/PLAN_<stem>.json
    taskType,                \* task name -> "type:" of its frontmatter
    action_handlers,         \* RalphWiggumLoop.action_handlers (registered types)
    approval_check_interval, \* RalphWiggumLoop.approval_check_interval
    pc,                      \* where the executor process stands
    cur,                     \* execute_task: task_file
    plan,                    \* execute_task: plan["steps"] (in memory)
    i,                       \* execute_task: index of the step of the for loop
    attempt,                 \* _execute_step_with_retry: attempts made so far
    waited,                  \* _wait_for_approval: waited
    approval_file,           \* _wait_for_approval: approval_file
    stamp,                   \* clock that names approval files
    approval_result,         \* _execute_step_with_retry: approval_result
    step_result,             \* execute_task: step_result["status"]
    result,                  \* execute_task: result["status"]
    runExecuted,             \* steps handed to _execute_step_with_retry in this run
    runApproved,             \* steps whose approval came back approved in this run
    runInvoked,              \* steps whose registered handler was invoked in this run
    runRejected,             \* steps whose approval came back not approved, by reason
    loadedDone,              \* steps the loaded plan recorded as completed
    crashes,                 \* process crashes so far
    requeues,                \* times the human put a task back into Needs_Action
    artType,                 \* approval artifact name -> "type:" of its frontmatter
    gate_handlers,           \* ApprovalWorkflow.action_handlers (registered types)
    processed_files,         \* ApprovalWorkflow.processed_files
    gpc,                     \* where the approval gate process stands
    gscan,                   \* check_for_approvals: pending_files not yet visited
    gfile,                   \* _handle_rejection: filepath
    gcalls,                  \* approval artifact name -> gate handler invocations
    gresult,                 \* approval artifact name -> the result the gate last returned for it
    opc,                     \* where the orchestrator process stands
    otask,                   \* process_task: task
    orch_plans,              \* tasks the orchestrator wrote a Plans/PLAN_*.md for
    handler_calls,           \* _execute_step_with_retry: handler invocations for this step
    sleeps,                  \* _execute_step_with_retry: the time.sleep arguments so far
    last_error,              \* _execute_step_with_retry: result["last_error"]
    now,                     \* datetime.now() of the latest handle_error, in seconds
    error_counts,            \* ErrorRecovery.error_counts
    last_error_time,         \* ErrorRecovery.last_error_time
    fallbacks,               \* ErrorRecovery.fallbacks (registered operations)
    journal,                 \* Logs/Errors/errors_<day>.json
    alerts,                  \* Needs_Action/Alerts: error ids of the ALERT_*.md
    notices,                 \* Quarantine: error ids of the NOTICE_*.md
    item,                    \* where the file of context['file_path'] is
    rpc,                     \* where handle_error stands
    rcall,                   \* handle_error: its arguments
    rattempt,                \* _handle_retry: attempt
    rsleeps,                 \* _handle_retry: the time.sleep arguments so far
    retry_calls,             \* _handle_retry: invocations of retry_fn in this call
    retry_outcomes,          \* _handle_retry: how each invocation ended
    rres,                    \* handle_error: what it returned, or that it raised
    ncalls,                  \* handle_error calls so far
    nresets,                 \* reset_circuit calls so far
    counted,                 \* the errors counted since the operation's last
                             \* manual reset: operation and time
    was_open,                \* operations whose circuit has been open
    enqueued,                \* the priority labels of the task files of
                             \* Needs_Action, in the order they were enqueued
    scanned,                 \* scan_needs_action: the list it returned
    waiting,                 \* the enqueued tasks that are still in Needs_Action
    unreadable,              \* the enqueued tasks whose read_text raises
    cycle_processed,         \* run_cycle: the tasks it called process_task for
    task_body,               \* task name -> the word of its text that a template looks for
    generated,               \* _generate_steps: the steps it returned
    analysed,                \* _analyze_and_plan: the steps it returned
    sclock,                  \* the schedulers' wall clock, in seconds
    state,                   \* ScheduledTasksRunner.state: task -> last run
    state_file,              \* .scheduler_state.json
    last_run,                \* TaskScheduler.last_run: task -> last run
    last_run_file,           \* .last_run.json
    polled,                  \* the schedulers that have polled at this time
    ran,                     \* the latest run of a scheduled task
    audit_file,              \* Logs/Audit/audit_<date>.jsonl: the events read back from its lines
    altered,                 \* the lines of audit_file changed after log() wrote them
    verified,                \* what verify_log_integrity last returned
    alert_at,                \* where the alert files moved out of Needs_Action/Alerts lie
    alert_plans              \* the plans written for alert files, by subsystem

execVars == <<pc, cur, plan, i, attempt, waited, approval_file, approval_result,
              step_result, result>>
histVars == <<runExecuted, runApproved, runInvoked, runRejected, loadedDone>>
confVars == <<taskType, action_handlers, approval_check_interval>>
gateVars == <<artType, gate_handlers, processed_files, gpc, gscan, gfile, gcalls,
              gresult>>
orchVars == <<opc, otask, orch_plans>>
retryVars == <<handler_calls, sleeps, last_error>>
scanVars == <<enqueued, scanned, waiting, unreadable, cycle_processed>>
recVars == <<now, error_counts, last_error_time, fallbacks, journal, alerts,
             notices, item, rpc, rcall, rattempt, rsleeps, retry_calls,
             retry_outcomes, rres, ncalls, nresets, counted, was_open>>
planVars == <<task_body, generated, analysed>>
schedVars == <<sclock, state, state_file, last_run, last_run_file, polled, ran>>
auditVars == <<audit_file, altered, verified>>
alertVars == <<alert_at, alert_plans>>
vars == <<folder, content, planFile, stamp, crashes, requeues,
          execVars, histVars, confVars, alertVars, auditVars, schedVars, gateVars, orchVars, retryVars, recVars,
          scanVars, planVars, schedVars, auditVars>>

\* ---------------------------------------------------------------- bounds
MaxCrashes == 1
MaxRequeues == 1
MaxStamp == 2
MaxErrors == 6
MaxResets == 1
MaxTicks == 14
MaxEvents == 3
NumScanTasks == 3

\* ------------------------------------------------------ program constants
max_retries == 3
max_wait == 3600
retry_delay == 60
circuit_breaker_threshold == 5
URGENT == 1
HIGH == 2
MEDIUM == 3
LOW == 4
circuit_breaker_reset == 900
loop_sleep == 60
every_5_minutes == 300
daemon_sleep == 60
interval_minutes == 2
check_interval == 30
timeout == 300

CheckIntervals == {1800, 5000}

\* -------------------------------------------------------------- the store
Partitions == {"Needs_Action", "In_Progress", "Pending_Approval", "Approved",
               "Rejected", "Done", "Failed", "Quarantine"}

TaskNames == {<<"TASK", 1>>}

\* a second task file, of a type whose plan has no approval step
OtherTask == <<"TASK", 2>>
ApprovalNames == {<<"APPROVAL", n>> : n \in 1..MaxStamp}
Names == TaskNames \cup ApprovalNames

NoTask == <<"NONE", 0>>
NoFile == <<"NONE", 0>>

\* Path.rename / shutil.move: one move of name n from folder src to folder dst.
rename(f, n, src, dst) ==
    [f EXCEPT ![src] = @ \ {n}, ![dst] = @ \cup {n}]

\* Path.unlink
unlink(f, n, src) == [f EXCEPT ![src] = @ \ {n}]

\* Path.write_text of a new file
write_file(f, n, dst) == [f EXCEPT ![dst] = @ \cup {n}]

PartitionsOf(n) == {p \in Partitions : n \in folder[p]}

\* --------------------------------------------------------------- the plan
TaskTypes == {"email", "linkedin", "general"}

\* the `type:` lines the watchers of the repository write, one with a capital,
\* and "none" for a frontmatter without a type line
PlanTypes == TaskTypes \cup {"email_received", "social_post", "whatsapp_message",
                             "notification", "twitter_post", "Email", "none"}

\* the words of a task's text that _analyze_and_plan looks for
Bodies == {"text", "client", "project"}
HandlerTypes == {"send_email", "social_post"}

\* what register_handler has been called for: nothing, or both side effects
Registrations == {{}, HandlerTypes}

\* `needle in task_type` for the type strings of PlanTypes
TypeContains(task_type, needle) ==
    \/ task_type = "email" /\ needle = "email"
    \/ task_type = "linkedin" /\ needle = "linkedin"
    \/ task_type = "email_received" /\ needle = "email"
    \/ task_type = "social_post" /\ needle = "social"

\* task_data.get("type", "general").lower() for the type strings of PlanTypes
type_lower(task_type) ==
    CASE task_type = "none" -> "general"
      [] task_type = "Email" -> "email"
      [] OTHER -> task_type

Step(name, action_type, needs_approval) ==
    [name |-> name, action_type |-> action_type,
     needs_approval |-> needs_approval, status |-> "pending"]

\* every type gets the generic steps
generate_steps_generic(task_type) ==
    << Step("Analyze", "default", FALSE),
       Step("Execute", "default", FALSE),
       Step("Verify", "default", FALSE),
       Step("Archive", "default", FALSE) >>

generate_steps(task_type) ==
    IF TypeContains(type_lower(task_type), "email")
    THEN << Step("Analyze", "default", FALSE),
            Step("Draft", "default", FALSE),
            Step("Approve", "default", TRUE),
            Step("Send", "send_email", FALSE),
            Step("Archive", "default", FALSE) >>
    ELSE IF \/ TypeContains(type_lower(task_type), "linkedin")
            \/ TypeContains(type_lower(task_type), "social")
    THEN << Step("Create", "default", FALSE),
            Step("Approve", "default", TRUE),
            Step("Post", "social_post", FALSE),
            Step("Archive", "default", FALSE) >>
    ELSE << Step("Analyze", "default", FALSE),
            Step("Execute", "default", FALSE),
            Step("Verify", "default", FALSE),
            Step("Archive", "default", FALSE) >>

\* a step of the orchestrator's Plan.md: a name and whether the line is
\* marked as requiring approval
PlanStep(name, needs_approval) == [name |-> name, needs_approval |-> needs_approval]

\* _analyze_and_plan: the type is looked for first, then the text of the task
analyze_and_plan(task_type, body) ==
    IF TypeContains(type_lower(task_type), "email")
    THEN << PlanStep("Analyze Email", FALSE),
            PlanStep("Determine Response", FALSE),
            PlanStep("Draft Response", TRUE),
            PlanStep("Send Email", FALSE),
            PlanStep("Archive", FALSE) >>
    ELSE IF TypeContains(type_lower(task_type), "linkedin")
    THEN << PlanStep("Review Notification", FALSE),
            PlanStep("Determine Action", FALSE),
            PlanStep("Draft Response", TRUE),
            PlanStep("Execute", FALSE),
            PlanStep("Archive", FALSE) >>
    ELSE IF body \in {"client", "project"}
    THEN << PlanStep("Analyze Inquiry", FALSE),
            PlanStep("Check Handbook", FALSE),
            PlanStep("Prepare Proposal", TRUE),
            PlanStep("Send Response", FALSE),
            PlanStep("Create Follow-up", FALSE),
            PlanStep("Archive", FALSE) >>
    ELSE << PlanStep("Analyze Task", FALSE),
            PlanStep("Plan Approach", FALSE),
            PlanStep("Execute", FALSE),
            PlanStep("Verify", FALSE),
            PlanStep("Archive", FALSE) >>

NoPlan == [state |-> "none", steps |-> << >>]
CorruptPlan == [state |-> "corrupt", steps |-> << >>]
SavedPlan(steps) == [state |-> "ok", steps |-> steps]

\* _save_plan: the file holds what json.dump wrote
save_plan(pf, t, steps) == [pf EXCEPT ![t] = SavedPlan(steps)]

\* ----------------------------------------------------- approval artifacts
\* The text of an approval request, as the lines that matter to its readers:
\* box is what stands between the brackets of a checkbox line ("-" for a line
\* without a checkbox), word what the lower-cased line says.
Line(box, word) == [box |-> box, word |-> word]

\* the f-string of _wait_for_approval for a step named step_name
approval_template(step_name) ==
    << Line("-", "status: pending_approval"),
       Line("-", IF step_name = "Approve" THEN "approve" ELSE "other"),
       Line(" ", "approve"),
       Line(" ", "reject") >>

\* create_approval_request: the frontmatter and the three checkbox lines
request_template ==
    << Line("-", "status: pending_approval"),
       Line(" ", "approve"),
       Line(" ", "reject"),
       Line(" ", "edit") >>

\* `needle in word` for the words of the lines above
word_contains(word, needle) ==
    \/ word = needle
    \/ word = "status: approved" /\ needle = "approve"
    \/ word = "status: rejected" /\ needle = "reject"
    \/ word = "**rejected:**" /\ needle = "reject"
    \/ word = "status: needs_edit" /\ needle = "edit"
    \/ word = "**reason:**" /\ needle = "reason:"

\* `'[x]' in content`
has_checked(c) == \E k \in 1..Len(c) : c[k].box = "x"
\* `needle in content` (content lower-cased)
has_word(c, needle) == \E k \in 1..Len(c) : word_contains(c[k].word, needle)

NoContent == << >>

\* ------------------------------------------------------------------- Init
StoreInit ==
    /\ folder = [p \in Partitions |-> IF p = "Needs_Action" THEN TaskNames ELSE {}]
    /\ content = [a \in ApprovalNames |-> NoContent]
    /\ artType = [a \in ApprovalNames |-> "none"]
    /\ planFile = [t \in TaskNames |-> NoPlan]
    /\ stamp = 1
    /\ crashes = 0
    /\ requeues = 0

ExecutorInit ==
    /\ pc = "idle"
    /\ cur = NoTask
    /\ plan = << >>
    /\ i = 0
    /\ attempt = 0
    /\ waited = 0
    /\ approval_file = NoFile
    /\ approval_result = "none"
    /\ step_result = "pending"
    /\ result = "not_started"
    /\ runExecuted = {}
    /\ runApproved = {}
    /\ runInvoked = {}
    /\ runRejected = {}
    /\ loadedDone = {}
    /\ handler_calls = 0
    /\ sleeps = << >>
    /\ last_error = "none"

\* the result dictionary of _handle_approval and _handle_rejection: what
\* stands under "status", under "action_result" ("handler" for what the
\* handler returned, "manual" for the text of the branch without a handler),
\* whether there is an "action_error", and under "reason"
GateResult(status, action_result, action_error, reason) ==
    [status |-> status, action_result |-> action_result,
     action_error |-> action_error, reason |-> reason]

NoGateResult == GateResult("none", "none", FALSE, "none")

GateInit ==
    /\ processed_files = {}
    /\ gpc = "idle"
    /\ gscan = {}
    /\ gfile = NoFile
    /\ gcalls = [a \in ApprovalNames |-> 0]
    /\ gresult = [a \in ApprovalNames |-> NoGateResult]

OrchestratorInit ==
    /\ opc = "idle"
    /\ otask = NoTask
    /\ orch_plans = {}

\* ErrorRecovery.__init__; no error has been handled yet
NoResult == [status |-> "none", strategy |-> "none", recovered |-> FALSE,
             applied |-> "none", message |-> "none"]
NoCall == [operation |-> "none", retry_fn |-> "none", max_retries |-> 0,
           file_path |-> FALSE, strategy |-> "none"]
EmptyJournal == [state |-> "ok", records |-> << >>]

RecoveryInit ==
    /\ now = 0
    /\ error_counts = << >>
    /\ last_error_time = << >>
    /\ journal = EmptyJournal
    /\ alerts = {}
    /\ notices = {}
    /\ rpc = "idle"
    /\ rcall = NoCall
    /\ rattempt = 0
    /\ rsleeps = << >>
    /\ retry_calls = 0
    /\ retry_outcomes = << >>
    /\ rres = NoResult
    /\ ncalls = 0
    /\ nresets = 0
    /\ counted = << >>
    /\ was_open = {}

\* no scheduled task has run
NoRun == [by |-> "none", task |-> "none", outcome |-> "none", at |-> 0]

\* both schedulers as their constructors leave them in a new vault
SchedIdle ==
    /\ sclock = 0
    /\ state = << >>
    /\ state_file = << >>
    /\ last_run = << >>
    /\ last_run_file = << >>
    /\ polled = {}
    /\ ran = NoRun

\* verify_log_integrity has not been called
NotVerified ==
    [total_events |-> 0, valid |-> 0, invalid |-> 0, integrity |-> "unknown",
     altered |-> {}]

\* no alert file has been moved or planned
AlertIdle ==
    /\ alert_at = << >>
    /\ alert_plans = {}

\* the audit journal of a day before the first event
AuditIdle ==
    /\ audit_file = << >>
    /\ altered = {}
    /\ verified = NotVerified

\* no task of the scan model is enqueued
ScanIdle ==
    /\ enqueued = << >>
    /\ scanned = << >>
    /\ waiting = {}
    /\ unreadable = {}
    /\ cycle_processed = << >>

\* no plan has been asked for
PlanIdle ==
    /\ task_body = [t \in TaskNames |-> "text"]
    /\ generated = << >>
    /\ analysed = << >>

Init ==
    /\ StoreInit
    /\ ExecutorInit
    /\ GateInit
    /\ OrchestratorInit
    /\ RecoveryInit
    /\ SchedIdle
    /\ AuditIdle
    /\ AlertIdle
    /\ ScanIdle
    /\ PlanIdle
    /\ fallbacks = {}
    /\ item = "Needs_Action"
    /\ taskType \in [TaskNames -> TaskTypes]
    /\ action_handlers \in Registrations
    /\ approval_check_interval \in CheckIntervals
    /\ gate_handlers = {}

\* ----------------------------------------------------------- the executor
\* run_loop: tasks = list(needs_action.rglob('*.md')); execute_task(tasks[0]).
\* The listing order is the file system's, so any task present may be first.
run_loop(t) ==
    /\ pc = "idle"
    /\ t \in folder["Needs_Action"]
    /\ pc' = "load"
    /\ cur' = t
    /\ result' = "in_progress"
    /\ plan' = << >>
    /\ i' = 0
    /\ runExecuted' = {}
    /\ runApproved' = {}
    /\ runInvoked' = {}
    /\ runRejected' = {}
    /\ loadedDone' = {}
    /\ UNCHANGED <<folder, content, planFile, stamp, crashes, requeues, attempt,
                   waited, approval_file, approval_result, step_result, confVars, alertVars, auditVars, schedVars, scanVars, planVars, recVars, retryVars, gateVars, orchVars>>

\* _get_or_create_plan: the steps execute_task works on, and the plan file after
\* the call: an existing file is loaded as it is, a new plan is saved.
loaded_steps(t) ==
    IF planFile[t].state = "ok" THEN planFile[t].steps
    ELSE generate_steps(taskType[t])

plan_after_get_or_create(t) ==
    IF planFile[t].state = "ok" THEN planFile
    ELSE save_plan(planFile, t, generate_steps(taskType[t]))

\* execute_task, steps 1 and 2: read_text raises when the file is gone and
\* json.load raises on a plan file that is no JSON; the except branch sets
\* the result to failed and moves nothing.
execute_task_load ==
    /\ pc = "load"
    /\ IF cur \notin folder["Needs_Action"] \/ planFile[cur].state = "corrupt"
       THEN /\ result' = "failed"
            /\ pc' = "return"
            /\ UNCHANGED <<plan, planFile, loadedDone>>
       ELSE /\ plan' = loaded_steps(cur)
            /\ planFile' = plan_after_get_or_create(cur)
            /\ loadedDone' = {k \in 1..Len(plan') : plan'[k].status = "completed"}
            /\ pc' = "claim"
            /\ UNCHANGED result
    /\ UNCHANGED <<folder, content, stamp, crashes, requeues, cur, i, attempt,
                   waited, approval_file, approval_result, step_result,
                   runExecuted, runApproved, runInvoked, runRejected,
                   confVars, alertVars, auditVars, schedVars, scanVars, planVars, recVars, retryVars, gateVars, orchVars>>

\* the move into In_Progress of a file that is still in Needs_Action
claim(f, t) ==
    IF t \in f["Needs_Action"] THEN rename(f, t, "Needs_Action", "In_Progress") ELSE f

execute_task_claim ==
    /\ pc = "claim"
    /\ folder' = claim(folder, cur)
    /\ pc' = "step"
    /\ i' = 1
    /\ attempt' = 0
    /\ UNCHANGED <<content, planFile, stamp, crashes, requeues, cur, plan, waited,
                   approval_file, approval_result, step_result, result,
                   histVars, confVars, alertVars, auditVars, schedVars, scanVars, planVars, recVars, retryVars, gateVars, orchVars>>

\* `for attempt in range(max_retries)` is over after max_retries passes
exhausted_early(a) == a >= max_retries - 1

exhausted(a) == a >= max_retries

\* `if attempt < self.max_retries - 1: time.sleep(self.retry_delay)`, the list
\* of the waits made so far after the failed pass number a (counted from 1)
slept(sl, a) == IF a - 1 < max_retries - 1 THEN Append(sl, retry_delay) ELSE sl

\* _execute_step_with_retry, head of `for attempt in range(max_retries)`:
\* a step that needs approval first writes its approval request
\* (_wait_for_approval up to the poll loop).
step_attempt ==
    /\ pc = "step"
    /\ ~exhausted(attempt)
    /\ attempt' = attempt + 1
    /\ runExecuted' = runExecuted \cup {i}
    /\ approval_result' = "none"
    /\ IF plan[i].needs_approval
       THEN /\ stamp <= MaxStamp
            /\ approval_file' = <<"APPROVAL", stamp>>
            /\ stamp' = stamp + 1
            /\ folder' = write_file(folder, approval_file', "Pending_Approval")
            /\ content' = [content EXCEPT ![approval_file'] =
                               approval_template(plan[i].name)]
            /\ artType' = [artType EXCEPT ![approval_file'] = "step_approval"]
            /\ waited' = 0
            /\ pc' = "wait"
       ELSE /\ pc' = "act"
            /\ UNCHANGED <<approval_file, stamp, folder, content, artType, waited>>
    /\ UNCHANGED <<planFile, crashes, requeues, cur, plan, i, step_result, result,
                   runApproved, runInvoked, runRejected, loadedDone,
                   confVars, alertVars, auditVars, schedVars, scanVars, planVars, recVars, retryVars, gate_handlers, processed_files, gpc, gscan, gfile,
                   gcalls, gresult, orchVars>>

\* _wait_for_approval, one pass of the poll loop over approval file a:
\* what the pass decides.
poll(f, c, a) ==
    IF a \in f["Approved"] THEN "approved"
    ELSE IF a \notin f["Pending_Approval"] THEN "moved"
    ELSE IF has_checked(c[a]) /\ has_word(c[a], "approve") THEN "checked_approve"
    ELSE IF has_checked(c[a]) /\ has_word(c[a], "reject") THEN "checked_reject"
    ELSE "sleep"

\* the loop condition with <= for <
keep_waiting_inclusive(w) == w <= max_wait

\* `while waited < max_wait`
keep_waiting(w) == w < max_wait

\* only an explicit rejection skips the step, a timeout does not
skip_step_unless_timeout(approval) == approval = "rejected"

\* `if not approval_result["approved"]`: the step returns Skipped
skip_step(approval) == approval # "approved"

\* the folders after the pass: a checked APPROVE renames the file into
\* Approved, a checked REJECT unlinks it
folder_after_poll(f, c, a) ==
    CASE poll(f, c, a) = "checked_approve" ->
             rename(f, a, "Pending_Approval", "Approved")
      [] poll(f, c, a) = "checked_reject" -> unlink(f, a, "Pending_Approval")
      [] OTHER -> f

\* one pass of `while waited < max_wait`: the checks of the loop body, up to
\* the sleep
wait_for_approval ==
    /\ pc = "wait"
    /\ LET d == poll(folder, content, approval_file)
           answer == CASE d \in {"approved", "checked_approve"} -> "approved"
                       [] d \in {"moved", "checked_reject"} -> "rejected"
                       [] OTHER -> "none"
       IN /\ folder' = folder_after_poll(folder, content, approval_file)
          /\ approval_result' = answer
          /\ IF answer = "none"
             THEN /\ pc' = "sleep"
                  /\ UNCHANGED <<step_result, runApproved, runRejected,
                                 approval_file>>
             ELSE /\ approval_file' = NoFile
                  /\ IF skip_step(answer)
                     THEN /\ step_result' = "skipped"
                          /\ runRejected' = runRejected \cup {<<i, answer>>}
                          /\ pc' = "persist"
                          /\ UNCHANGED runApproved
                     ELSE /\ runApproved' = runApproved \cup {i}
                          /\ pc' = "act"
                          /\ UNCHANGED <<step_result, runRejected>>
    /\ UNCHANGED <<content, planFile, stamp, crashes, requeues, cur, plan, i,
                   attempt, result, runExecuted, runInvoked, loadedDone, waited,
                   confVars, alertVars, auditVars, schedVars, scanVars, planVars, recVars, retryVars, gateVars, orchVars>>

\* `time.sleep(self.approval_check_interval)`, `waited += ...` and the loop
\* test: the next pass, or the timeout result after the loop
sleep_for_approval ==
    /\ pc = "sleep"
    /\ LET w == waited + approval_check_interval
       IN /\ waited' = w
          /\ IF keep_waiting(w)
             THEN /\ pc' = "wait"
                  /\ UNCHANGED <<approval_result, step_result, runRejected,
                                 approval_file>>
             ELSE /\ approval_result' = "timeout"
                  /\ approval_file' = NoFile
                  /\ IF skip_step("timeout")
                     THEN /\ step_result' = "skipped"
                          /\ runRejected' = runRejected \cup {<<i, "timeout">>}
                          /\ pc' = "persist"
                     ELSE /\ pc' = "act"
                          /\ UNCHANGED <<step_result, runRejected>>
    /\ UNCHANGED <<folder, content, planFile, stamp, crashes, requeues, cur,
                   plan, i, attempt, result, runExecuted, runInvoked,
                   loadedDone, runApproved,
                   confVars, alertVars, auditVars, schedVars, scanVars, planVars, recVars, retryVars, gateVars, orchVars>>

\* _execute_action: a registered handler is called and succeeds, returns
\* success: False, or raises; without a handler the step is marked complete.
HandlerOutcomes == {"success", "fail", "raise"}

has_handler(action_type) == action_type \in action_handlers

execute_action ==
    /\ pc = "act"
    /\ \E out \in HandlerOutcomes :
         /\ has_handler(plan[i].action_type) \/ out = "success"
         /\ IF has_handler(plan[i].action_type)
            THEN runInvoked' = runInvoked \cup {i}
            ELSE UNCHANGED runInvoked
         /\ handler_calls' = IF has_handler(plan[i].action_type)
                             THEN handler_calls + 1 ELSE handler_calls
         /\ IF out = "success"
            THEN /\ step_result' = "completed"
                 /\ pc' = "persist"
                 /\ UNCHANGED <<last_error, sleeps>>
            ELSE /\ last_error' = out
                 /\ sleeps' = slept(sleeps, attempt)
                 /\ IF ~exhausted(attempt)
                    THEN /\ pc' = "step"
                         /\ UNCHANGED step_result
                    ELSE /\ step_result' = "failed"
                         /\ pc' = "persist"
    /\ UNCHANGED <<folder, content, planFile, stamp, crashes, requeues, cur, plan,
                   i, attempt, waited, approval_file, approval_result, result,
                   runExecuted, runApproved, runRejected, loadedDone, confVars, alertVars, auditVars, schedVars, scanVars, planVars, recVars,
                   gateVars, orchVars>>

\* execute_task, after _execute_step_with_retry returned:
\* plan["steps"][i]["status"] = step_result["status"]; self._save_plan(plan)
with_status(steps, k, status) == [steps EXCEPT ![k].status = status]

\* the call of _save_plan left out
persist_step_unsaved(pf, t, steps) == pf

persist_step(pf, t, steps) == save_plan(pf, t, steps)

\* a `break` on a skipped step
after_step_break_on_skip(k, n, status) ==
    IF k < n /\ status # "skipped" THEN "step" ELSE "finish"

\* the for loop goes on to the next step whatever the status
after_step(k, n, status) == IF k < n THEN "step" ELSE "finish"

execute_task_persist ==
    /\ pc = "persist"
    /\ plan' = with_status(plan, i, step_result)
    /\ planFile' = persist_step(planFile, cur, plan')
    /\ pc' = after_step(i, Len(plan), step_result)
    /\ i' = IF pc' = "step" THEN i + 1 ELSE i
    /\ attempt' = 0
    /\ step_result' = "pending"
    /\ approval_result' = "none"
    /\ waited' = 0
    /\ handler_calls' = 0
    /\ sleeps' = << >>
    /\ last_error' = "none"
    /\ UNCHANGED <<folder, content, stamp, crashes, requeues, cur,
                   approval_file, result, histVars, confVars, alertVars, auditVars, schedVars, scanVars, planVars, recVars, gateVars, orchVars>>

\* execute_task, step 5
all_completed(steps) == \A k \in 1..Len(steps) : steps[k].status = "completed"

final_partition(steps) == IF all_completed(steps) THEN "Done" ELSE "Failed"

finish(f, t, steps) ==
    IF t \in f["In_Progress"] THEN rename(f, t, "In_Progress", final_partition(steps))
    ELSE f

execute_task_finish ==
    /\ pc = "finish"
    /\ folder' = finish(folder, cur, plan)
    /\ result' = IF all_completed(plan) THEN "completed" ELSE "failed"
    /\ pc' = "return"
    /\ UNCHANGED <<content, planFile, stamp, crashes, requeues, cur, plan, i,
                   attempt, waited, approval_file, approval_result, step_result,
                   histVars, confVars, alertVars, auditVars, schedVars, scanVars, planVars, recVars, retryVars, gateVars, orchVars>>

\* execute_task returns to run_loop
execute_task_return ==
    /\ pc = "return"
    /\ pc' = "idle"
    /\ cur' = NoTask
    /\ plan' = << >>
    /\ i' = 0
    /\ result' = "not_started"
    /\ runExecuted' = {}
    /\ runApproved' = {}
    /\ runInvoked' = {}
    /\ runRejected' = {}
    /\ loadedDone' = {}
    /\ UNCHANGED <<folder, content, planFile, stamp, crashes, requeues, attempt,
                   waited, approval_file, approval_result, step_result, confVars, alertVars, auditVars, schedVars, scanVars, planVars, recVars, retryVars, gateVars, orchVars>>

\* The process dies and is started again: memory is lost, the folders and the
\* plan files stay. A death inside _save_plan (open(plan_file, 'w') has
\* truncated the file, json.dump has not finished) leaves a file that is no JSON.
crash ==
    /\ pc \notin {"idle"}
    /\ crashes < MaxCrashes
    /\ crashes' = crashes + 1
    /\ \E torn \in BOOLEAN :
         /\ torn => pc = "persist" \/ (pc = "load" /\ planFile[cur].state = "none")
         /\ planFile' = IF torn THEN [planFile EXCEPT ![cur] = CorruptPlan]
                        ELSE planFile
    /\ pc' = "idle"
    /\ cur' = NoTask
    /\ plan' = << >>
    /\ i' = 0
    /\ attempt' = 0
    /\ waited' = 0
    /\ approval_file' = NoFile
    /\ approval_result' = "none"
    /\ step_result' = "pending"
    /\ result' = "not_started"
    /\ runExecuted' = {}
    /\ runApproved' = {}
    /\ runInvoked' = {}
    /\ runRejected' = {}
    /\ loadedDone' = {}
    /\ handler_calls' = 0
    /\ sleeps' = << >>
    /\ last_error' = "none"
    /\ UNCHANGED <<folder, content, stamp, requeues, confVars, alertVars, auditVars, schedVars, scanVars, planVars, recVars, gateVars, orchVars>>

\* -------------------------------------------------------------- the human
\* test_hitl_approval_flow: the human approves by moving the file to Approved
move_to_approved(a) ==
    /\ a \in folder["Pending_Approval"]
    /\ folder' = rename(folder, a, "Pending_Approval", "Approved")
    /\ UNCHANGED <<content, planFile, stamp, crashes, requeues, execVars,
                   histVars, confVars, alertVars, auditVars, schedVars, scanVars, planVars, recVars, retryVars, gateVars, orchVars>>

move_to_rejected(a) ==
    /\ a \in folder["Pending_Approval"]
    /\ folder' = rename(folder, a, "Pending_Approval", "Rejected")
    /\ UNCHANGED <<content, planFile, stamp, crashes, requeues, execVars,
                   histVars, confVars, alertVars, auditVars, schedVars, scanVars, planVars, recVars, retryVars, gateVars, orchVars>>

\* the human checks the box of the APPROVE, REJECT or EDIT line
check_box(c, word) ==
    [k \in 1..Len(c) |->
        IF c[k].box = " " /\ c[k].word = word THEN Line("x", word) ELSE c[k]]

check(a, word) ==
    /\ a \in folder["Pending_Approval"]
    /\ content[a] # check_box(content[a], word)
    /\ content' = [content EXCEPT ![a] = check_box(@, word)]
    /\ UNCHANGED <<folder, planFile, stamp, crashes, requeues, execVars,
                   histVars, confVars, alertVars, auditVars, schedVars, scanVars, planVars, recVars, retryVars, gateVars, orchVars>>

\* the human writes a line "Reason: ..." into the request
write_reason(a) ==
    /\ a \in folder["Pending_Approval"]
    /\ ~has_word(content[a], "reason:")
    /\ content' = [content EXCEPT ![a] = Append(@, Line("-", "**reason:**"))]
    /\ UNCHANGED <<folder, planFile, stamp, crashes, requeues, execVars,
                   histVars, confVars, alertVars, auditVars, schedVars, scanVars, planVars, recVars, retryVars, gateVars, orchVars>>

\* In the executor's runs the human decides the request the executor waits
\* on; requests left behind by a timeout or a crash stay where they are.
human_approve(a) == a = approval_file /\ move_to_approved(a)
human_reject(a) == a = approval_file /\ move_to_rejected(a)
human_check(a, word) == a = approval_file /\ check(a, word)

\* the human puts a task the executor is not working on back into Needs_Action
human_requeue(t, src) ==
    /\ t # cur
    /\ t \in folder[src]
    /\ requeues < MaxRequeues
    /\ requeues' = requeues + 1
    /\ folder' = rename(folder, t, src, "Needs_Action")
    /\ UNCHANGED <<content, planFile, stamp, crashes, execVars, histVars,
                   confVars, alertVars, auditVars, schedVars, scanVars, planVars, recVars, retryVars, gateVars, orchVars>>

\* ------------------------------------------------------ the approval gate
GateTypes == {"email_draft"}

\* what register_action_handler has been called for
GateRegistrations == {{}, {"email_draft"}}

\* create_approval_request, called by the components that ask for approval
create_approval_request(action_type) ==
    /\ stamp <= MaxStamp
    /\ stamp' = stamp + 1
    /\ folder' = write_file(folder, <<"APPROVAL", stamp>>, "Pending_Approval")
    /\ content' = [content EXCEPT ![<<"APPROVAL", stamp>>] = request_template]
    /\ artType' = [artType EXCEPT ![<<"APPROVAL", stamp>>] = action_type]
    /\ UNCHANGED <<planFile, crashes, requeues, execVars, histVars, confVars, alertVars, auditVars, schedVars, scanVars, planVars, recVars, retryVars,
                   gate_handlers, processed_files, gpc, gscan, gfile, gcalls, gresult,
                   orchVars>>

\* a line that one of the three patterns of a list matches:
\* \[x\]\s*\*?\*?word, \[x\]\s*<emoji>\s*word, status:\s*<status>
marked(c, word, status) ==
    \E k \in 1..Len(c) :
        \/ c[k].box = "x" /\ c[k].word = word
        \/ c[k].word = status

\* _detect_approval_status
detect_approval_status(c) ==
    IF marked(c, "approve", "status: approved") THEN "approved"
    ELSE IF marked(c, "reject", "status: rejected") THEN "rejected"
    ELSE IF marked(c, "edit", "status: needs_edit") THEN "needs_edit"
    ELSE "pending"

\* check_for_approvals: pending_files = list(self.pending_folder.glob('*.md'))
check_for_approvals_begin ==
    /\ gpc = "idle"
    /\ gscan' = folder["Pending_Approval"]
    /\ gpc' = "scan"
    /\ UNCHANGED <<folder, content, planFile, stamp, crashes, requeues, execVars,
                   histVars, confVars, alertVars, auditVars, schedVars, scanVars, planVars, recVars, retryVars, artType, gate_handlers, processed_files,
                   gfile, gcalls, gresult, orchVars>>

\* shutil.copy for the first shutil.move: the file stays in Pending_Approval
folders_after_approval_copy(f, a, handled) ==
    IF handled THEN write_file(f, a, "Done") ELSE write_file(f, a, "Approved")

\* _handle_approval: the folders after shutil.move into Approved and, when a
\* handler ran and did not raise, after shutil.move into Done
folders_after_approval(f, a, handled) ==
    IF handled
    THEN rename(rename(f, a, "Pending_Approval", "Approved"), a, "Approved", "Done")
    ELSE rename(f, a, "Pending_Approval", "Approved")

\* _extract_rejection_reason: the first of its patterns is `reason:\s*(.+)`,
\* searched with re.IGNORECASE
extract_rejection_reason(c) == IF has_word(c, "reason:") THEN "given" ELSE "none"

\* the text is written into Rejected as it was read
without_rejection_note(c) == c

\* _handle_rejection: the text written into Rejected; the first line added
\* stands for "**REJECTED:** " and the time of the call
with_rejection_note(c) ==
    IF extract_rejection_reason(c) = "none"
    THEN Append(c, Line("-", "**rejected:**"))
    ELSE Append(Append(c, Line("-", "**rejected:**")), Line("-", "**reason:**"))

\* the "action_error" of a handler that raised is not put into the result
approval_outcome_silent(registered, raised) ==
    IF ~registered THEN GateResult("approved", "manual", FALSE, "none")
    ELSE IF raised THEN GateResult("approved", "none", FALSE, "none")
    ELSE GateResult("approved", "handler", FALSE, "none")

\* _handle_approval: the result for a type with or without a registered
\* handler, and for a handler that raised or returned
approval_outcome(registered, raised) ==
    IF ~registered THEN GateResult("approved", "manual", FALSE, "none")
    ELSE IF raised THEN GateResult("approved", "none", TRUE, "none")
    ELSE GateResult("approved", "handler", FALSE, "none")

\* check_for_approvals, one pass of `for filepath in pending_files`: a
\* processed name is passed over, read_text raises on a file that has gone
\* (caught and logged), an approved file is handled, a file read as rejected
\* is handed to _handle_rejection (the next steps of the gate).
check_for_approvals_visit(a) ==
    /\ gpc = "scan"
    /\ a \in gscan
    /\ gscan' = gscan \ {a}
    /\ IF a \in processed_files \/ a \notin folder["Pending_Approval"]
       THEN UNCHANGED <<folder, content, processed_files, gpc, gfile, gcalls, gresult>>
       ELSE CASE detect_approval_status(content[a]) = "approved" ->
                   \E raised \in BOOLEAN :
                     /\ raised => artType[a] \in gate_handlers
                     /\ folder' = folders_after_approval(folder, a,
                                      artType[a] \in gate_handlers /\ ~raised)
                     /\ gcalls' = [gcalls EXCEPT ![a] =
                                      IF artType[a] \in gate_handlers THEN @ + 1 ELSE @]
                     /\ gresult' = [gresult EXCEPT ![a] =
                                       approval_outcome(artType[a] \in gate_handlers, raised)]
                     /\ processed_files' = processed_files \cup {a}
                     /\ UNCHANGED <<content, gpc, gfile>>
              [] detect_approval_status(content[a]) = "rejected" ->
                     /\ gfile' = a
                     /\ gpc' = "reject"
                     /\ UNCHANGED <<folder, content, processed_files, gcalls, gresult>>
              [] OTHER ->
                     UNCHANGED <<folder, content, processed_files, gpc, gfile, gcalls,
                                 gresult>>
    /\ UNCHANGED <<planFile, stamp, crashes, requeues, execVars, histVars,
                   confVars, alertVars, auditVars, schedVars, scanVars, planVars, recVars, retryVars, artType, gate_handlers, orchVars>>

\* _handle_rejection: rejected_path.write_text(updated_content), whether or
\* not the file read is still in Pending_Approval
handle_rejection_write ==
    /\ gpc = "reject"
    /\ folder' = write_file(folder, gfile, "Rejected")
    /\ content' = [content EXCEPT ![gfile] = with_rejection_note(@)]
    /\ gpc' = "unlink"
    /\ UNCHANGED <<planFile, stamp, crashes, requeues, execVars, histVars,
                   confVars, alertVars, auditVars, schedVars, scanVars, planVars, recVars, retryVars, artType, gate_handlers,
                   processed_files, gscan, gfile, gcalls, gresult, orchVars>>

\* _handle_rejection: filepath.unlink(), which raises when the file has gone
\* (check_for_approvals catches it and goes on with the next file)
handle_rejection_unlink ==
    /\ gpc = "unlink"
    /\ IF gfile \in folder["Pending_Approval"]
       THEN /\ folder' = unlink(folder, gfile, "Pending_Approval")
            /\ processed_files' = processed_files \cup {gfile}
            /\ gresult' = [gresult EXCEPT ![gfile] =
                              GateResult("rejected", "none", FALSE,
                                         extract_rejection_reason(content[gfile]))]
       ELSE UNCHANGED <<folder, processed_files, gresult>>
    /\ gfile' = NoFile
    /\ gpc' = "scan"
    /\ UNCHANGED <<content, planFile, stamp, crashes, requeues, execVars,
                   histVars, confVars, alertVars, auditVars, schedVars, scanVars, planVars, recVars, retryVars, artType, gate_handlers, gscan, gcalls,
                   orchVars>>

check_for_approvals_end ==
    /\ gpc = "scan"
    /\ gscan = {}
    /\ gpc' = "idle"
    /\ UNCHANGED <<folder, content, planFile, stamp, crashes, requeues, execVars,
                   histVars, confVars, alertVars, auditVars, schedVars, scanVars, planVars, recVars, retryVars, artType, gate_handlers, processed_files,
                   gscan, gfile, gcalls, gresult, orchVars>>

\* The gate process is stopped and started again: processed_files is a set in
\* memory and starts empty.
gate_restart ==
    /\ crashes < MaxCrashes
    /\ crashes' = crashes + 1
    /\ processed_files' = {}
    /\ gpc' = "idle"
    /\ gscan' = {}
    /\ gfile' = NoFile
    /\ UNCHANGED <<folder, content, planFile, stamp, requeues, execVars,
                   histVars, confVars, alertVars, auditVars, schedVars, scanVars, planVars, recVars, retryVars, artType, gate_handlers, gcalls, gresult, orchVars>>

\* ------------------------------------------------------- the orchestrator
\* the plan file not written
plans_after_create_plan_unwritten(plans, t) == plans

\* create_plan: plan_path.write_text(plan_content)
plans_after_create_plan(plans, t) == plans \cup {t}

\* run_cycle: tasks = scan_needs_action(); process_task(tasks[0]), first part:
\* plan_path = self.create_plan(task)
process_task_create_plan(t) ==
    /\ opc = "idle"
    /\ t \in folder["Needs_Action"]
    /\ orch_plans' = plans_after_create_plan(orch_plans, t)
    /\ otask' = t
    /\ opc' = "claim"
    /\ UNCHANGED <<folder, content, planFile, stamp, crashes, requeues, execVars,
                   histVars, confVars, alertVars, auditVars, schedVars, scanVars, planVars, recVars, retryVars, gateVars>>

\* process_task, second part: task['filepath'].rename(dest), which raises when
\* the file has gone; the except branch reports status error
process_task_claim ==
    /\ opc = "claim"
    /\ folder' = claim(folder, otask)
    /\ otask' = NoTask
    /\ opc' = "idle"
    /\ UNCHANGED <<content, planFile, stamp, crashes, requeues, execVars,
                   histVars, confVars, alertVars, auditVars, schedVars, scanVars, planVars, recVars, retryVars, gateVars, orch_plans>>

\* ------------------------------------------------------- error recovery
OperationKeys == {"send_email", "unknown"}
RecoveryStrategy == {"retry", "fallback", "skip", "alert", "quarantine"}

\* context['retry_fn']: absent, a function, or a callable object that the
\* json encoder takes (an instance of a str subclass with __call__)
RetryFns == {"none", "function", "callable_str"}
RetryBudgets == {1, 3}

\* a context: context.get('operation', 'unknown'), context.get('retry_fn'),
\* context.get('max_retries', 3), 'file_path' in context
Context(operation, retry_fn, retries, file_path) ==
    [operation |-> operation, retry_fn |-> retry_fn, max_retries |-> retries,
     file_path |-> file_path]

\* the calls of handle_error: every strategy for operation send_email, with
\* and without a retry function and a file; a context without 'operation'
\* (key unknown), for which no fallback is registered
Calls ==
    {<<Context("send_email", fn, n, FALSE), "retry">> :
         fn \in RetryFns, n \in RetryBudgets}
    \cup {<<Context("send_email", "none", 3, file), s>> :
              file \in BOOLEAN, s \in {"skip", "quarantine"}}
    \cup {<<Context("send_email", "none", 3, FALSE), s>> : s \in {"fallback", "alert"}}
    \cup {<<Context("unknown", "none", 3, FALSE), "fallback">>}

\* the calls that differ in operation and strategy only
BreakerCalls ==
    {<<Context("send_email", "none", 3, FALSE), s>> : s \in {"skip", "fallback"}}
    \cup {<<Context("unknown", "none", 3, FALSE), "fallback">>}

\* seconds between two calls: five errors fit into the reset window, a chain
\* of errors that does not fit, a pause longer than the window (all times of
\* a run lie within one day)
Gaps == {180, 420, 960}
ShortGaps == {180}

\* dict.get(key, 0)
get(d, key) == IF key \in DOMAIN d THEN d[key] ELSE 0

\* d[key] = value
put(d, key, value) ==
    [k \in DOMAIN d \cup {key} |-> IF k = key THEN value ELSE d[k]]

\* _log_error: json.load of the day's file raises on a file that is no JSON;
\* json.dump raises on a context that holds a function, after open(log_file,
\* 'w') has truncated the file and a part of the list has been written
CorruptJournal == [state |-> "corrupt", records |-> << >>]

log_error_raises(j, ctx) == j.state = "corrupt" \/ ctx.retry_fn = "function"

log_error(j, error_id, ctx) ==
    IF j.state = "corrupt" THEN j
    ELSE IF ctx.retry_fn = "function" THEN CorruptJournal
    ELSE [state |-> "ok",
          records |-> Append(j.records, [error_id |-> error_id,
                                         operation |-> ctx.operation])]

\* the count is kept whatever the time since the last error
count_after_update_unwindowed(counts, times, op, t) == get(counts, op) + 1

\* _update_error_count: the count of operation op after an error at time t
count_after_update(counts, times, op, t) ==
    IF op \in DOMAIN times /\ t - times[op] > circuit_breaker_reset
    THEN 1
    ELSE get(counts, op) + 1

\* the circuit is open at the threshold only, not above it
is_circuit_open_at_threshold(counts, op) ==
    get(counts, op) = circuit_breaker_threshold

\* _is_circuit_open
is_circuit_open(counts, op) == get(counts, op) >= circuit_breaker_threshold

result_of(strategy, recovered, applied, message) ==
    [status |-> "returned", strategy |-> strategy, recovered |-> recovered,
     applied |-> applied, message |-> message]

Raised == [status |-> "raised", strategy |-> "none", recovered |-> FALSE,
           applied |-> "none", message |-> "none"]

\* file_path.rename(dest) of _handle_skip and _handle_quarantine, done only
\* `if file_path.exists()`
item_after_move(it, ctx, dest) ==
    IF ctx.file_path /\ it = "Needs_Action" THEN dest ELSE it

\* handle_error up to the dispatch on the strategy; the Retry strategy with a
\* retry function goes on in handle_retry
handle_error(ctx, strategy, d) ==
    /\ rpc = "idle"
    /\ ncalls < MaxErrors
    /\ ncalls' = ncalls + 1
    /\ now' = now + d
    /\ rcall' = [operation |-> ctx.operation, retry_fn |-> ctx.retry_fn,
                 max_retries |-> ctx.max_retries, file_path |-> ctx.file_path,
                 strategy |-> strategy]
    /\ journal' = log_error(journal, now', ctx)
    /\ rattempt' = 0
    /\ rsleeps' = << >>
    /\ retry_calls' = 0
    /\ retry_outcomes' = << >>
    /\ IF log_error_raises(journal, ctx)
       THEN /\ rres' = Raised
            /\ rpc' = "idle"
            /\ UNCHANGED <<error_counts, last_error_time, alerts, notices, item,
                           counted, was_open>>
       ELSE /\ error_counts' = put(error_counts, ctx.operation,
                                   count_after_update(error_counts, last_error_time,
                                                      ctx.operation, now'))
            /\ last_error_time' = put(last_error_time, ctx.operation, now')
            /\ counted' = Append(counted, [operation |-> ctx.operation, at |-> now'])
            /\ IF is_circuit_open(error_counts', ctx.operation)
               THEN /\ rres' = result_of("alert", FALSE, "circuit", "none")
                    /\ alerts' = alerts \cup {now'}
                    /\ was_open' = was_open \cup {ctx.operation}
                    /\ rpc' = "idle"
                    /\ UNCHANGED <<notices, item>>
               ELSE /\ UNCHANGED was_open
                    /\ CASE strategy = "retry" ->
                              /\ IF ctx.retry_fn = "none"
                                 THEN /\ rres' = result_of("retry", FALSE, "retry",
                                                          "no_retry_fn")
                                      /\ rpc' = "idle"
                                 ELSE /\ rres' = NoResult
                                      /\ rpc' = "retry"
                              /\ UNCHANGED <<alerts, notices, item>>
                         [] strategy = "fallback" ->
                              /\ IF ctx.operation \in fallbacks
                                 THEN \E raised \in BOOLEAN :
                                        rres' = result_of("fallback", ~raised, "fallback",
                                                    IF raised THEN "fallback_failed"
                                                    ELSE "none")
                                 ELSE rres' = result_of("fallback", FALSE, "fallback",
                                                       "no_fallback")
                              /\ rpc' = "idle"
                              /\ UNCHANGED <<alerts, notices, item>>
                         [] strategy = "skip" ->
                              /\ rres' = result_of("skip", TRUE, "skip", "skipped")
                              /\ item' = item_after_move(item, ctx, "Skipped")
                              /\ rpc' = "idle"
                              /\ UNCHANGED <<alerts, notices>>
                         [] strategy = "alert" ->
                              /\ rres' = result_of("alert", FALSE, "alert", "alerted")
                              /\ alerts' = alerts \cup {now'}
                              /\ rpc' = "idle"
                              /\ UNCHANGED <<notices, item>>
                         [] strategy = "quarantine" ->
                              /\ rres' = result_of("quarantine", FALSE, "quarantine",
                                              IF item_after_move(item, ctx, "Quarantine") # item
                                              THEN "quarantined" ELSE "none")
                              /\ item' = item_after_move(item, ctx, "Quarantine")
                              /\ notices' = notices \cup {now'}
                              /\ rpc' = "idle"
                              /\ UNCHANGED alerts
    /\ UNCHANGED <<folder, content, planFile, stamp, crashes, requeues, execVars,
                   histVars, confVars, alertVars, auditVars, schedVars, scanVars, planVars, retryVars, gateVars, orchVars, fallbacks,
                   nresets>>

\* every wait is one second
backoff_constant(a) == 1

\* delay = (2 ** attempt) * 1
backoff(a) == (2 ^ a) * 1

\* _handle_retry, one pass of `for attempt in range(max_retries)`:
\* time.sleep(delay), then retry_fn(**retry_args), which returns or raises
handle_retry ==
    /\ rpc = "retry"
    /\ rsleeps' = Append(rsleeps, backoff(rattempt))
    /\ retry_calls' = retry_calls + 1
    /\ rattempt' = rattempt + 1
    /\ \E raised \in BOOLEAN :
         /\ retry_outcomes' =
                Append(retry_outcomes, IF raised THEN "raised" ELSE "returned")
         /\ IF ~raised
            THEN /\ rres' = result_of("retry", TRUE, "retry", "none")
                 /\ rpc' = "idle"
            ELSE IF rattempt + 1 < rcall.max_retries
            THEN UNCHANGED <<rres, rpc>>
            ELSE /\ rres' = result_of("retry", FALSE, "retry", "all_retries_failed")
                 /\ rpc' = "idle"
    /\ UNCHANGED <<folder, content, planFile, stamp, crashes, requeues, execVars,
                   histVars, confVars, alertVars, auditVars, schedVars, scanVars, planVars, retryVars, gateVars, orchVars, now,
                   error_counts, last_error_time, fallbacks, journal, alerts,
                   notices, item, rcall, ncalls, nresets, counted, was_open>>

\* the records of the other operations
without(cs, op) ==
    LET other(r) == r.operation # op IN SelectSeq(cs, other)

\* reset_circuit
reset_circuit(op) ==
    /\ rpc = "idle"
    /\ nresets < MaxResets
    /\ nresets' = nresets + 1
    /\ error_counts' = put(error_counts, op, 0)
    /\ counted' = without(counted, op)
    /\ UNCHANGED <<folder, content, planFile, stamp, crashes, requeues, execVars,
                   histVars, confVars, alertVars, auditVars, schedVars, scanVars, planVars, retryVars, gateVars, orchVars, now,
                   last_error_time, fallbacks, journal, alerts, notices, item,
                   rpc, rcall, rattempt, rsleeps, retry_calls, retry_outcomes,
                   rres, ncalls, was_open>>

\* The process is stopped and started again: __init__ sets error_counts and
\* last_error_time to empty dictionaries; the caller registers its fallbacks
\* again
recovery_restart ==
    /\ rpc = "idle"
    /\ crashes < MaxCrashes
    /\ crashes' = crashes + 1
    /\ error_counts' = << >>
    /\ last_error_time' = << >>
    /\ UNCHANGED <<folder, content, planFile, stamp, requeues, execVars,
                   histVars, confVars, alertVars, auditVars, schedVars, scanVars, planVars, retryVars, gateVars,
                   orchVars, now, fallbacks, journal, alerts, notices, item,
                   rpc, rcall, rattempt, rsleeps, retry_calls, retry_outcomes,
                   rres, ncalls, nresets, counted, was_open>>

\* --------------------------------------- the alert files and the scans
\* _create_alert writes Needs_Action/Alerts/ALERT_<error_id>.md with
\* `type: error_alert` and `priority: high`; needs_action.rglob('*.md') of
\* both scans goes into the subfolders: the alert files it lists
listed_alerts(written, at) == written \ DOMAIN at

\* Orchestrator.run_cycle with an alert file as tasks[0] (priority high sorts
\* before the tasks of priority medium, low or none): process_task writes
\* Plans/PLAN_error_alert_<timestamp>.md and renames the file into In_Progress
process_task_alert(a) ==
    /\ opc = "idle"
    /\ a \in listed_alerts(alerts, alert_at)
    /\ alert_plans' = alert_plans \cup {<<"orchestrator", a>>}
    /\ alert_at' = put(alert_at, a, "In_Progress")
    /\ UNCHANGED <<folder, content, planFile, stamp, crashes, requeues, execVars,
                   histVars, confVars, auditVars, schedVars, scanVars, planVars,
                   recVars, retryVars, gateVars, orchVars>>

\* where execute_task leaves a file whose plan is steps: Done when every
\* step completes, else Failed
destination(steps) ==
    IF \A k \in 1..Len(steps) :
           ~steps[k].needs_approval /\ ~has_handler(steps[k].action_type)
    THEN "Done" ELSE "Failed"

\* RalphWiggumLoop.run_loop with an alert file as tasks[0] (the order of
\* rglob is the file system's): execute_task writes Plans/PLAN_<stem>.json
\* with the steps of type error_alert, runs them and moves the file
execute_task_alert(a) ==
    /\ pc = "idle"
    /\ a \in listed_alerts(alerts, alert_at)
    /\ alert_plans' = alert_plans \cup {<<"executor", a>>}
    /\ alert_at' = put(alert_at, a, destination(generate_steps("error_alert")))
    /\ UNCHANGED <<folder, content, planFile, stamp, crashes, requeues, execVars,
                   histVars, confVars, auditVars, schedVars, scanVars, planVars,
                   recVars, retryVars, gateVars, orchVars>>

\* ------------------------------------------- the orchestrator's scan
\* the value of `priority:` in a task's frontmatter; "none" is a task without
\* the key
PriorityLabels == {"urgent", "high", "medium", "low", "URGENT", "asap", "none"}

\* str.lower
lower(label) == IF label = "URGENT" THEN "urgent" ELSE label

\* _parse_task: task.get('priority', 'medium').lower() looked up in the rank
\* table, an unknown label counting as MEDIUM
priority_num(label) ==
    LET priority == IF label = "none" THEN "medium" ELSE lower(label)
    IN CASE priority = "urgent" -> URGENT
         [] priority = "high" -> HIGH
         [] priority = "medium" -> MEDIUM
         [] priority = "low" -> LOW
         [] OTHER -> MEDIUM

\* the orders in which rglob may list the files S: the order of the
\* directory entries, which is the file system's and not the order of creation
Listings(S) ==
    {l \in [1..Cardinality(S) -> S] :
        \A a, b \in 1..Cardinality(S) : a # b => l[a] # l[b]}

\* the scan stops at the first file it cannot read
read_until_failure(listing, bad) ==
    LET firstbad == {k \in 1..Len(listing) : listing[k] \in bad}
    IN IF firstbad = {} THEN listing
       ELSE SubSeq(listing, 1, (CHOOSE k \in firstbad : \A j \in firstbad : k <= j) - 1)

\* the for loop of scan_needs_action: a file whose read_text or _parse_task
\* raises is logged and left out, the loop goes on
read_all(listing, bad) ==
    LET ok(x) == x \notin bad IN SelectSeq(listing, ok)

\* list.sort(key=...) is stable: x goes behind every element whose key is not
\* greater than its own
RECURSIVE insert_sorted(_, _, _)
insert_sorted(sorted, x, labels) ==
    IF sorted = << >> THEN <<x>>
    ELSE IF priority_num(labels[x]) < priority_num(labels[Head(sorted)])
    THEN <<x>> \o sorted
    ELSE <<Head(sorted)>> \o insert_sorted(Tail(sorted), x, labels)

RECURSIVE sort_by_priority(_, _)
sort_by_priority(tasks, labels) ==
    IF tasks = << >> THEN << >>
    ELSE insert_sorted(sort_by_priority(SubSeq(tasks, 1, Len(tasks) - 1), labels),
                       tasks[Len(tasks)], labels)

\* scan_needs_action: the tasks (numbered in the order they were enqueued)
\* are read in the order of the listing and sorted by priority_num
scan_needs_action(listing) ==
    /\ scanned' = sort_by_priority(read_all(listing, unreadable), enqueued)
    /\ UNCHANGED <<folder, content, planFile, stamp, crashes, requeues, execVars,
                   histVars, confVars, alertVars, auditVars, schedVars, recVars, retryVars, gateVars, orchVars,
                   enqueued, waiting, unreadable, cycle_processed, planVars>>

\* run_cycle: `if tasks: task = tasks[0]; result = self.process_task(task)`
processed_in_cycle(tasks) == IF tasks = << >> THEN << >> ELSE <<tasks[1]>>

\* run_cycle: one scan, then process_task, which moves the task's file into
\* In_Progress, for the tasks processed_in_cycle names
run_cycle(listing) ==
    /\ scanned' = sort_by_priority(read_all(listing, unreadable), enqueued)
    /\ cycle_processed' = processed_in_cycle(scanned')
    /\ waiting' = waiting \ {cycle_processed'[k] : k \in 1..Len(cycle_processed')}
    /\ UNCHANGED <<folder, content, planFile, stamp, crashes, requeues, execVars,
                   histVars, confVars, alertVars, auditVars, schedVars, recVars, retryVars, gateVars, orchVars,
                   enqueued, unreadable, planVars>>

\* ------------------------------------------------------ the specifications
Executor ==
    \/ \E t \in TaskNames : run_loop(t)
    \/ execute_task_load
    \/ execute_task_claim
    \/ step_attempt
    \/ wait_for_approval
    \/ sleep_for_approval
    \/ execute_action
    \/ execute_task_persist
    \/ execute_task_finish
    \/ execute_task_return

Human ==
    \/ \E a \in ApprovalNames : human_approve(a)
    \/ \E a \in ApprovalNames : human_reject(a)
    \/ \E a \in ApprovalNames, word \in {"approve", "reject"} : human_check(a, word)
    \/ \E t \in TaskNames, src \in {"In_Progress", "Failed"} : human_requeue(t, src)

Gate ==
    \/ check_for_approvals_begin
    \/ \E a \in ApprovalNames : check_for_approvals_visit(a)
    \/ handle_rejection_write
    \/ handle_rejection_unlink
    \/ check_for_approvals_end

Approver ==
    \/ \E a \in ApprovalNames : move_to_approved(a)
    \/ \E a \in ApprovalNames : move_to_rejected(a)
    \/ \E a \in ApprovalNames, word \in {"approve", "reject"} : check(a, word)

Orchestrator ==
    \/ \E t \in TaskNames : process_task_create_plan(t)
    \/ process_task_claim

\* the executor's loop, the human and restarts of the executor
Next == Executor \/ Human \/ crash

Spec == Init /\ [][Next]_vars

\* ------------------------------------------------------------------------
\* The executor's loop with a second task file in Needs_Action and with the
\* error recovery moving the task at work into Quarantine.

\* run_loop finds the second task first: execute_task reads it, makes its plan
\* and renames it into In_Progress
run_loop_other ==
    /\ pc = "idle"
    /\ OtherTask \in folder["Needs_Action"]
    /\ folder' = rename(folder, OtherTask, "Needs_Action", "In_Progress")
    /\ pc' = "other"
    /\ UNCHANGED <<content, planFile, stamp, crashes, requeues, cur, plan, i,
                   attempt, waited, approval_file, approval_result, step_result,
                   result, histVars, confVars, alertVars, auditVars, schedVars, scanVars, planVars, recVars,
                   retryVars, gateVars, orchVars>>

\* execute_task of the second task: its steps complete, the file is renamed
\* into Done and execute_task returns to run_loop
execute_task_other ==
    /\ pc = "other"
    /\ folder' = finish(folder, OtherTask, << >>)
    /\ pc' = "idle"
    /\ UNCHANGED <<content, planFile, stamp, crashes, requeues, cur, plan, i,
                   attempt, waited, approval_file, approval_result, step_result,
                   result, histVars, confVars, alertVars, auditVars, schedVars, scanVars, planVars, recVars,
                   retryVars, gateVars, orchVars>>

\* _handle_quarantine of the error recovery, or a human, moves the file of the
\* task the executor works on out of In_Progress into Quarantine
quarantine(t) ==
    /\ t = cur
    /\ t \in folder["In_Progress"]
    /\ folder' = rename(folder, t, "In_Progress", "Quarantine")
    /\ UNCHANGED <<content, planFile, stamp, crashes, requeues, execVars, histVars,
                   confVars, alertVars, auditVars, schedVars, scanVars, planVars, recVars, retryVars, gateVars, orchVars>>

InitLoop ==
    /\ folder = [p \in Partitions |->
                    IF p = "Needs_Action" THEN TaskNames \cup {OtherTask} ELSE {}]
    /\ content = [a \in ApprovalNames |-> NoContent]
    /\ artType = [a \in ApprovalNames |-> "none"]
    /\ planFile = [t \in TaskNames |-> NoPlan]
    /\ stamp = 1
    /\ crashes = 0
    /\ requeues = 0
    /\ ExecutorInit
    /\ GateInit
    /\ OrchestratorInit
    /\ RecoveryInit
    /\ SchedIdle
    /\ AuditIdle
    /\ AlertIdle
    /\ ScanIdle
    /\ PlanIdle
    /\ fallbacks = {}
    /\ item = "Needs_Action"
    /\ taskType \in [TaskNames -> TaskTypes]
    /\ action_handlers \in Registrations
    /\ approval_check_interval \in CheckIntervals
    /\ gate_handlers = {}

NextLoop ==
    \/ Executor
    \/ Human
    \/ run_loop_other
    \/ execute_task_other
    \/ \E t \in TaskNames : quarantine(t)

SpecLoop == InitLoop /\ [][NextLoop]_vars

\* the approval gate, the components that ask it for approval, the human approver
InitGate ==
    /\ StoreInit
    /\ ExecutorInit
    /\ RecoveryInit
    /\ SchedIdle
    /\ AuditIdle
    /\ AlertIdle
    /\ ScanIdle
    /\ PlanIdle
    /\ fallbacks = {}
    /\ item = "Needs_Action"
    /\ GateInit
    /\ OrchestratorInit
    /\ taskType = [t \in TaskNames |-> "general"]
    /\ action_handlers = {}
    /\ approval_check_interval = 30
    /\ gate_handlers \in GateRegistrations

NextGate ==
    \/ \E action_type \in GateTypes : create_approval_request(action_type)
    \/ Gate
    \/ Approver
    \/ gate_restart

SpecGate == InitGate /\ [][NextGate]_vars

\* the approval gate with a handler registered, and a human who decides in
\* the text of the request and may write down a reason
InitDecide ==
    /\ InitGate
    /\ gate_handlers = {"email_draft"}

NextDecide ==
    \/ \E action_type \in GateTypes : create_approval_request(action_type)
    \/ Gate
    \/ \E a \in ApprovalNames, word \in {"approve", "reject"} : check(a, word)
    \/ \E a \in ApprovalNames : write_reason(a)
    \/ gate_restart

SpecDecide == InitDecide /\ [][NextDecide]_vars

\* the orchestrator's cycle and the executor's loop on the same vault
NextOrch == Orchestrator \/ Executor \/ Human

SpecOrch == Init /\ [][NextOrch]_vars

\* the two loops on their own, each scheduled again and again: run() of the
\* orchestrator and run_loop() of the executor are `while True` loops with a
\* sleep, so a step of either that stays possible is taken
NextFair == Orchestrator \/ Executor

\* the gate's scan and the executor's poll in one vault: the plan of an
\* email task has a step that needs approval, the human marks the request
\* and moves nothing
InitRace ==
    /\ Init
    /\ taskType = [t \in TaskNames |-> "email"]
    /\ action_handlers = {}
    /\ approval_check_interval = 1800

NextRace ==
    \/ Executor
    \/ Gate
    \/ \E a \in ApprovalNames, word \in {"approve", "reject"} : human_check(a, word)

SpecRace == InitRace /\ [][NextRace]_vars

SpecFair ==
    /\ Init
    /\ [][NextFair]_vars
    /\ WF_vars(Orchestrator)
    /\ WF_vars(Executor)

\* ------------------------------------------------------------- the claims
FinalStatuses == {"completed", "failed", "skipped"}
Returned == pc = "return"
AfterLoop == pc \in {"finish", "return"} /\ plan # << >>

\* C1: in execute_task a registered side-effect handler is invoked for a task
\* only if an Approved decision was observed for the task's approval step in
\* that run; after Rejected or timeout no later step invokes the handler.
C1_HandlerOnlyAfterApproval ==
    runInvoked # {} => \E k \in runApproved : plan[k].needs_approval

\* C2: a step with needs_approval becomes Completed only if
\* _wait_for_approval came back approved in that execution of the step;
\* without that the step ends Skipped or Failed.
C2_NoBypass ==
    /\ (pc = "persist" /\ plan[i].needs_approval)
         => /\ step_result = "completed" => approval_result = "approved"
            /\ approval_result # "approved" => step_result \in {"skipped", "failed"}
    /\ \A k \in runExecuted :
         (plan[k].needs_approval /\ (k < i \/ AfterLoop)
            /\ plan[k].status = "completed") => k \in runApproved

C2_Witness ==
    pc = "persist" /\ plan[i].needs_approval /\ step_result = "completed"

\* C4: when execute_task returns, the task is in Done iff every step of its
\* plan is Completed, and in every other outcome (a step Failed or Skipped, an
\* exception) it is in Failed.
C4_DoneIffAllCompleted ==
    Returned =>
        /\ cur \in folder["Done"] <=> (plan # << >> /\ all_completed(plan))
        /\ cur \notin folder["Done"] => cur \in folder["Failed"]

\* C6: when execute_task runs on a task whose persisted plan exists, the steps
\* the plan records as Completed are not executed again and their handlers
\* are not invoked a second time.
C6_ResumeSkipsCompleted ==
    /\ runExecuted \cap loadedDone = {}
    /\ runInvoked \cap loadedDone = {}

C9_RejectionSkipsAndContinues ==
    /\ (pc = "persist" /\ approval_result = "rejected") => step_result = "skipped"
    /\ \A r \in runRejected :
         /\ (r[1] < i \/ AfterLoop) => plan[r[1]].status = "skipped"
         /\ AfterLoop => runExecuted = 1..Len(plan)
         /\ ~AfterLoop => (1..(i - 1) \subseteq runExecuted /\ i <= Len(plan))

C9_Witness ==
    /\ Returned
    /\ \E r \in runRejected : r[2] = "rejected" /\ r[1] < Len(plan)
    /\ runExecuted = 1..Len(plan)

\* C10: with no human decision _wait_for_approval stops once the accumulated
\* wait reaches max_wait, for every check interval, and resolves to a
\* rejection with reason timeout; the task then ends in Failed, never in Done.
C10_TimeoutIsRejection ==
    /\ pc = "wait" => waited < max_wait
    /\ approval_result = "timeout" =>
         /\ step_result = "skipped"
         /\ waited >= max_wait
         /\ waited - approval_check_interval < max_wait
    /\ (Returned /\ \E r \in runRejected : r[2] = "timeout") =>
         /\ cur \in folder["Failed"]
         /\ cur \notin folder["Done"]
         /\ result = "failed"

C10_Witness ==
    /\ Returned
    /\ \E r \in runRejected : r[2] = "timeout"
    /\ cur \in folder["Failed"]

\* The files that exist: the tasks, and the approval requests written so far.
Existing == TaskNames \cup {a \in ApprovalNames : content[a] # NoContent}

\* C3: after any sequence of store transitions each task and each approval
\* artifact is in exactly one partition folder, never in none, never in two.
C3_ExactlyOnePartition ==
    gpc \in {"idle", "scan"} =>
        \A n \in Existing : Cardinality(PartitionsOf(n)) = 1

\* C5: a scan of check_for_approvals after an artifact has been resolved
\* leaves the artifact's partition as it is and does not invoke the handler
\* again; over all scans the handler runs at most once per artifact.
Resolved(a) ==
    /\ content[a] # NoContent
    /\ a \notin folder["Pending_Approval"]
    /\ a # gfile

C5_RescanIdempotent ==
    [][\A a \in ApprovalNames :
          /\ gcalls'[a] <= 1
          /\ Resolved(a) =>
                /\ {p \in Partitions : a \in folder'[p]} = PartitionsOf(a)
                /\ gcalls'[a] = gcalls[a]]_vars

C5_Witness ==
    /\ gpc = "scan"
    /\ crashes > 0
    /\ processed_files = {}
    /\ \E a \in ApprovalNames : a \in folder["Done"] /\ gcalls[a] = 1

\* C8: the plan of a task is written to storage before the task is moved
\* into In_Progress and before any step of the plan is executed.
HasPlan(t) == planFile[t].state = "ok" \/ t \in orch_plans

C8_PlanBeforeExecution ==
    /\ \A t \in folder["In_Progress"] : t \in TaskNames => HasPlan(t)
    /\ runExecuted # {} => planFile[cur].state = "ok"

C8_Witness ==
    \E t \in TaskNames :
        t \in folder["In_Progress"] /\ t \in orch_plans /\ planFile[t].state = "none"

\* error recovery on its own: the callers' errors are the inputs
InitRecovery ==
    /\ ScanIdle
    /\ PlanIdle
    /\ StoreInit
    /\ ExecutorInit
    /\ GateInit
    /\ OrchestratorInit
    /\ RecoveryInit
    /\ SchedIdle
    /\ AuditIdle
    /\ AlertIdle
    /\ taskType \in [TaskNames -> {"general"}]
    /\ action_handlers = {}
    /\ approval_check_interval = 30
    /\ gate_handlers = {}
    /\ fallbacks = {"send_email"}
    /\ item = "Needs_Action"

\* every strategy and every kind of context, the errors 180 s apart; the
\* circuit of an operation is reset by hand after it has opened
NextRecovery ==
    \/ \E c \in Calls, d \in ShortGaps : handle_error(c[1], c[2], d)
    \/ handle_retry
    \/ \E op \in was_open : reset_circuit(op)

SpecRecovery == InitRecovery /\ [][NextRecovery]_vars

\* the circuit breaker: the errors of two operations at every distance
NextBreaker ==
    \/ \E c \in BreakerCalls, d \in Gaps : handle_error(c[1], c[2], d)
    \/ \E op \in was_open : reset_circuit(op)

SpecBreaker == InitRecovery /\ [][NextBreaker]_vars

\* the circuit breaker in a process that is restarted
NextRestart ==
    \/ \E c \in BreakerCalls, d \in ShortGaps : handle_error(c[1], c[2], d)
    \/ recovery_restart

SpecRestart == InitRecovery /\ [][NextRestart]_vars

\* the calls that write an alert file and one that does not
AlertCalls ==
    {<<Context("send_email", "none", 3, FALSE), s>> : s \in {"alert", "skip"}}

\* the alerts of the recovery in a vault that both scans run on
NextAlert ==
    \/ \E c \in AlertCalls, d \in ShortGaps : handle_error(c[1], c[2], d)
    \/ \E a \in alerts : process_task_alert(a)
    \/ \E a \in alerts : execute_task_alert(a)

SpecAlert == InitRecovery /\ [][NextAlert]_vars

\* the scan of the orchestrator on its own: any labels, any listing
InitScan ==
    /\ StoreInit
    /\ ExecutorInit
    /\ GateInit
    /\ OrchestratorInit
    /\ RecoveryInit
    /\ SchedIdle
    /\ AuditIdle
    /\ AlertIdle
    /\ taskType \in [TaskNames -> {"general"}]
    /\ action_handlers = {}
    /\ approval_check_interval = 30
    /\ gate_handlers = {}
    /\ fallbacks = {}
    /\ item = "Needs_Action"
    /\ enqueued \in [1..NumScanTasks -> PriorityLabels]
    /\ scanned = << >>
    /\ waiting = 1..NumScanTasks
    /\ unreadable \in SUBSET (1..NumScanTasks)
    /\ cycle_processed = << >>
    /\ PlanIdle

NextScan ==
    \/ \E listing \in Listings(waiting) : scan_needs_action(listing)
    \/ \E listing \in Listings(waiting) : run_cycle(listing)

SpecScan == InitScan /\ [][NextScan]_vars

\* ------------------------------------------------------------------------
\* The two schedulers: ScheduledTasksRunner with its task email_check and
\* TaskScheduler with its task gmail_check, each polling in its own loop.

\* time.sleep of the polling loops: the clock goes on by the shorter sleep
sched_tick ==
    /\ sclock + check_interval <= MaxTicks * check_interval
    /\ sclock' = sclock + check_interval
    /\ polled' = {}
    /\ UNCHANGED <<folder, content, planFile, stamp, crashes, requeues, execVars,
                   histVars, confVars, alertVars, auditVars, recVars, retryVars, gateVars, orchVars,
                   scanVars, planVars, state, state_file, last_run, last_run_file,
                   ran>>

\* should_run for schedule 'every_5_minutes': a task without a last run counts
\* from datetime.min
should_run(st, task_name, t) ==
    task_name \notin DOMAIN st \/ t - st[task_name] >= every_5_minutes

\* run_task: self.state[f'{task_name}_last_run'] = start_time.isoformat() in
\* the try block after task.func() has returned; the except block sets the
\* last result only
state_after_run(st, task_name, start_time, outcome) ==
    IF outcome = "success" THEN put(st, task_name, start_time) ELSE st

\* run_all_due of the daemon loop for task email_check: should_run, then
\* run_task, whose function returns or raises; _save_state after both
run_all_due ==
    /\ "runner" \notin polled
    /\ sclock % daemon_sleep = 0
    /\ polled' = polled \cup {"runner"}
    /\ IF should_run(state, "email_check", sclock)
       THEN \E outcome \in {"success", "error"} :
              /\ state' = state_after_run(state, "email_check", sclock, outcome)
              /\ state_file' = state'
              /\ ran' = [by |-> "runner", task |-> "email_check",
                          outcome |-> outcome, at |-> sclock]
       ELSE UNCHANGED <<state, state_file, ran>>
    /\ UNCHANGED <<folder, content, planFile, stamp, crashes, requeues, execVars,
                   histVars, confVars, alertVars, auditVars, recVars, retryVars, gateVars, orchVars,
                   scanVars, planVars, sclock, last_run, last_run_file>>

\* should_run_task for a task with interval_minutes
should_run_task(lr, task_name, t) ==
    task_name \notin DOMAIN lr \/ t - lr[task_name] >= interval_minutes * 60

\* TaskScheduler.run_task: self.last_run[task_name] = datetime.now() once
\* subprocess.run has returned, whatever the return code; TimeoutExpired and
\* any other exception leave last_run as it was
last_run_after(lr, task_name, end_time, outcome) ==
    IF outcome \in {"success", "failed"} THEN put(lr, task_name, end_time) ELSE lr

\* the seconds subprocess.run takes: a command that hangs is stopped after
\* the timeout
duration(outcome) == IF outcome = "timeout" THEN timeout ELSE 0

\* run_once of run_continuous for task gmail_check: should_run_task, then
\* run_task, whose command exits with 0 or not, is stopped by the timeout, or
\* cannot be started
run_once ==
    /\ "scheduler" \notin polled
    /\ polled' = polled \cup {"scheduler"}
    /\ IF should_run_task(last_run, "gmail_check", sclock)
       THEN \E outcome \in {"success", "failed", "timeout", "error"} :
              /\ sclock + duration(outcome) <= MaxTicks * check_interval
              /\ sclock' = sclock + duration(outcome)
              /\ last_run' = last_run_after(last_run, "gmail_check", sclock', outcome)
              /\ last_run_file' = last_run'
              /\ ran' = [by |-> "scheduler", task |-> "gmail_check",
                          outcome |-> outcome, at |-> sclock']
       ELSE UNCHANGED <<sclock, last_run, last_run_file, ran>>
    /\ UNCHANGED <<folder, content, planFile, stamp, crashes, requeues, execVars,
                   histVars, confVars, alertVars, auditVars, recVars, retryVars, gateVars, orchVars,
                   scanVars, planVars, state, state_file>>

\* both scheduler processes are stopped and started again: _load_state and
\* _load_last_run read the two files
sched_restart ==
    /\ crashes < MaxCrashes
    /\ crashes' = crashes + 1
    /\ state' = state_file
    /\ last_run' = last_run_file
    /\ polled' = {}
    /\ UNCHANGED <<folder, content, planFile, stamp, requeues, execVars,
                   histVars, confVars, alertVars, auditVars, recVars, retryVars, gateVars, orchVars,
                   scanVars, planVars, sclock, state_file, last_run_file, ran>>

NextSched ==
    \/ sched_tick
    \/ run_all_due
    \/ run_once
    \/ sched_restart

SpecSched == InitRecovery /\ [][NextSched]_vars

\* ------------------------------------------------------------------------
\* The audit journal. The data of an event is a dictionary, given by its keys
\* in insertion order, each key by its decimal or literal text, and by
\* whether the keys are int or str objects.
Data(keys, ints) == [keys |-> keys, ints |-> ints]

\* the data of log_approval, and a dictionary of counts keyed by numbers
DataValues == {Data(<<"item">>, FALSE), Data(<<"2", "10">>, TRUE)}

EventTypes == {"approval_granted", "task_created"}
Actors == {"ai_employee", "human"}

\* sorted(keys): int keys in numeric order, str keys in the order of their text
sorted_keys(d) ==
    IF Len(d.keys) < 2 THEN d.keys
    ELSE IF d.ints THEN <<"2", "10">> ELSE <<"10", "2">>

\* json.dumps(event_copy, sort_keys=True) of _calculate_checksum, the
\* checksum field left out: the text the digest is taken of. The digest is
\* modelled by the text itself (no two texts of the model share a digest).
calculate_checksum(event) ==
    [event_type |-> event.event_type, actor |-> event.actor,
     data |-> sorted_keys(event.data)]

\* json.loads(json.dumps(event)) of one line of the journal: the keys of
\* the data in insertion order, all of them str
stored(event) ==
    [event_type |-> event.event_type, actor |-> event.actor,
     data |-> Data(event.data.keys, FALSE), checksum |-> event.checksum]

\* log: the event with its checksum is appended to the day's journal
log(event_type, data, actor) ==
    /\ Len(audit_file) < MaxEvents
    /\ LET event == [event_type |-> event_type, actor |-> actor, data |-> data,
                     checksum |-> "none"]
           summed == [event EXCEPT !.checksum = calculate_checksum(event)]
       IN audit_file' = Append(audit_file, stored(summed))
    /\ UNCHANGED <<folder, content, planFile, stamp, crashes, requeues, execVars,
                   histVars, confVars, alertVars, recVars, retryVars, gateVars, orchVars,
                   scanVars, planVars, schedVars, altered, verified>>

\* somebody edits line k of the journal: the actor of the event is changed,
\* the checksum is left as it is
alter(k, actor) ==
    /\ k \in 1..Len(audit_file)
    /\ audit_file[k].actor # actor
    /\ k \notin altered
    /\ audit_file' = [audit_file EXCEPT ![k].actor = actor]
    /\ altered' = altered \cup {k}
    /\ UNCHANGED <<folder, content, planFile, stamp, crashes, requeues, execVars,
                   histVars, confVars, alertVars, recVars, retryVars, gateVars, orchVars,
                   scanVars, planVars, schedVars, verified>>

\* the lines whose stored checksum is the one calculated from the line
valid_lines(file) ==
    {k \in 1..Len(file) : file[k].checksum = calculate_checksum(file[k])}

\* verify_log_integrity of a day whose journal exists
verify_log_integrity ==
    /\ audit_file # << >>
    /\ LET valid == Cardinality(valid_lines(audit_file))
           invalid == Len(audit_file) - valid
       IN verified' = [total_events |-> Len(audit_file), valid |-> valid,
                       invalid |-> invalid,
                       integrity |-> IF invalid = 0 THEN "valid" ELSE "compromised",
                       altered |-> altered]
    /\ UNCHANGED <<folder, content, planFile, stamp, crashes, requeues, execVars,
                   histVars, confVars, alertVars, recVars, retryVars, gateVars, orchVars,
                   scanVars, planVars, schedVars, audit_file, altered>>

NextAudit ==
    \/ \E event_type \in EventTypes, data \in DataValues, actor \in Actors :
          log(event_type, data, actor)
    \/ \E k \in 1..MaxEvents, actor \in Actors : alter(k, actor)
    \/ verify_log_integrity

SpecAudit == InitRecovery /\ [][NextAudit]_vars

\* ------------------------------------------------------------------------
\* The two plan generators, each applied to a task file of any type and text.

\* _get_or_create_plan without a plan file: "steps": self._generate_steps(task_data)
get_or_create_plan_new(t) ==
    /\ generated' = generate_steps(taskType[t])
    /\ UNCHANGED <<folder, content, planFile, stamp, crashes, requeues, execVars,
                   histVars, confVars, alertVars, auditVars, schedVars, recVars, retryVars, gateVars, orchVars,
                   scanVars, task_body, analysed>>

\* create_plan: steps = self._analyze_and_plan(task)
create_plan_analyze(t) ==
    /\ analysed' = analyze_and_plan(taskType[t], task_body[t])
    /\ UNCHANGED <<folder, content, planFile, stamp, crashes, requeues, execVars,
                   histVars, confVars, alertVars, auditVars, schedVars, recVars, retryVars, gateVars, orchVars,
                   scanVars, task_body, generated>>

InitPlan ==
    /\ StoreInit
    /\ ExecutorInit
    /\ GateInit
    /\ OrchestratorInit
    /\ RecoveryInit
    /\ SchedIdle
    /\ AuditIdle
    /\ AlertIdle
    /\ ScanIdle
    /\ taskType \in [TaskNames -> PlanTypes]
    /\ task_body \in [TaskNames -> Bodies]
    /\ generated = << >>
    /\ analysed = << >>
    /\ action_handlers = {}
    /\ approval_check_interval = 30
    /\ gate_handlers = {}
    /\ fallbacks = {}
    /\ item = "Needs_Action"

NextPlan ==
    \/ \E t \in TaskNames : get_or_create_plan_new(t)
    \/ \E t \in TaskNames : create_plan_analyze(t)

SpecPlan == InitPlan /\ [][NextPlan]_vars

\* ------------------------------------------------------------------------
\* C11: a step whose handler fails or raises on every attempt has had its
\* handler invoked exactly max_retries times when it is marked failed, it
\* carries the error of the last attempt, the statuses of the other steps are
\* left as they were, and the loop goes on to the next step.
C11_RetriesExhausted ==
    [][/\ handler_calls' <= max_retries
       /\ (pc = "persist" /\ step_result = "failed" /\ pc' \in {"step", "finish"}) =>
             /\ handler_calls = max_retries
             /\ attempt = max_retries
             /\ last_error \in {"fail", "raise"}
             /\ plan'[i].status = "failed"
             /\ \A k \in 1..Len(plan) : k # i => plan'[k] = plan[k]
             /\ i < Len(plan) => (pc' = "step" /\ i' = i + 1)]_vars

C11_Witness ==
    /\ pc = "act"
    /\ i > 1
    /\ plan[i - 1].status = "failed"
    /\ (i - 1) \in runInvoked

\* ------------------------------------------------------------------------
\* C12: the wait after the failed attempt number k (counted from 0) of a step
\* is retry_delay * 2^k, so the waits within one step strictly increase.
C12_ExponentialBackoff ==
    \A k \in 1..Len(sleeps) : sleeps[k] = retry_delay * 2 ^ (k - 1)

\* ------------------------------------------------------------------------
\* C13: in _handle_retry the wait before the invocation number k (from 1) of
\* the retry function is 1 * 2^(k-1) seconds, the function is invoked at most
\* max_retries times, no invocation follows one that did not raise, and that
\* one ends the call with recovered = true.
C13_RetryBackoff ==
    /\ Len(rsleeps) = retry_calls
    /\ Len(retry_outcomes) = retry_calls
    /\ retry_calls <= rcall.max_retries
    /\ \A k \in 1..Len(rsleeps) : rsleeps[k] = 1 * 2 ^ (k - 1)
    /\ \A k \in 1..Len(rsleeps) : k > 1 => rsleeps[k] > rsleeps[k - 1]
    /\ \A k \in 1..Len(retry_outcomes) :
          k < Len(retry_outcomes) => retry_outcomes[k] = "raised"
    /\ \A k \in 1..Len(retry_outcomes) :
          retry_outcomes[k] = "returned" => (rpc = "idle" /\ rres.recovered)
    /\ (rres.applied = "retry" /\ rres.recovered) =>
          (retry_calls > 0 /\ retry_outcomes[retry_calls] = "returned")

C13_Witness ==
    /\ rres.recovered
    /\ rres.applied = "retry"
    /\ rsleeps = <<1, 2, 4>>

\* the errors of operation op among cs that lie within the reset window that
\* ends at time t
errors_in_window(cs, op, t) ==
    Cardinality({k \in 1..Len(cs) :
                    cs[k].operation = op /\ t - cs[k].at <= circuit_breaker_reset})

\* a step that is a call of handle_error
IsCall == ncalls' = ncalls + 1

\* C14: when at least circuit_breaker_threshold errors of an operation have
\* been counted within the reset window, a further handle_error for it with
\* strategy retry returns strategy alert, writes the alert file of its error
\* id and does not invoke the retry function.
C14_OpenCircuitForcesAlert ==
    [][(/\ IsCall
        /\ rcall'.strategy = "retry"
        /\ errors_in_window(counted, rcall'.operation, now')
               >= circuit_breaker_threshold)
       => /\ rres'.status = "returned"
          /\ rres'.strategy = "alert"
          /\ now' \in alerts'
          /\ rpc' = "idle"
          /\ retry_calls' = 0]_vars

\* C15: handle_error forces an alert only when the errors counted for the
\* operation within the reset window (the one being handled included) have
\* reached the threshold; below it the requested strategy is applied, and the
\* errors of other operations do not count.
C15_CircuitOpensOnlyAtThreshold ==
    [][(IsCall /\ rres'.status = "returned")
       => IF errors_in_window(counted', rcall'.operation, now')
                >= circuit_breaker_threshold
          THEN TRUE
          ELSE rres'.applied # "circuit" /\ rres'.applied = rcall'.strategy]_vars

C17_JournalAppendOnly ==
    [][IF IsCall
       THEN /\ journal'.state = "ok"
            /\ Len(journal'.records) = Len(journal.records) + 1
            /\ SubSeq(journal'.records, 1, Len(journal.records)) = journal.records
       ELSE journal' = journal]_vars

\* what a finished call resolved to
resolution(r) ==
    CASE r.applied \in {"alert", "circuit"} -> "alert"
      [] r.applied = "quarantine" -> "quarantine"
      [] r.applied = "skip" -> "skip"
      [] OTHER -> "none"

\* C18: every finished handle_error resolved to exactly one of an alert file,
\* a quarantine notice or a skip, and unless the circuit forced the alert it
\* is the one the caller's strategy names.
C18_ResolvesToOneOfThree ==
    (rpc = "idle" /\ ncalls > 0) =>
        /\ resolution(rres) \in {"alert", "quarantine", "skip"}
        /\ resolution(rres) = "alert" => now \in alerts
        /\ resolution(rres) = "quarantine" => now \in notices
        /\ rres.applied # "circuit" => resolution(rres) = rcall.strategy

\* ------------------------------------------------------------------------
\* C19: a transition whose source file is missing changes no partition
\* folder; here the reject transition of the approval gate, taken on a file
\* that has left Pending_Approval since the gate read it.
C19_MissingSourceIsNoOp ==
    [][(/\ gpc \in {"reject", "unlink"}
        /\ gpc' \in {"unlink", "scan"}
        /\ gpc' # gpc
        /\ gfile \notin folder["Pending_Approval"])
       => folder' = folder]_vars

\* ------------------------------------------------------------------------
\* C20: the list scan_needs_action returns is in ascending priority_num, and
\* tasks of equal priority_num are in the order they were enqueued.
C20_ScanOrder ==
    \A a, b \in 1..Len(scanned) :
        a < b =>
           /\ priority_num(enqueued[scanned[a]]) <= priority_num(enqueued[scanned[b]])
           /\ priority_num(enqueued[scanned[a]]) = priority_num(enqueued[scanned[b]])
                 => scanned[a] < scanned[b]

\* ------------------------------------------------------------------------
\* C21: one run_cycle calls process_task for every task its scan returned,
\* in the order of the scan.
C21_CycleProcessesAll ==
    [][waiting' # waiting \/ cycle_processed' # cycle_processed
          => cycle_processed' = scanned']_vars

\* the types a template of _generate_steps is written for
TemplateTypes == {"email", "linkedin", "social"}

\* the steps of the generic template
GenericSteps == generate_steps("general")

\* C22: a task whose type is not exactly the type of a template gets the
\* steps of the generic template, whatever its type contains.
C22_TemplateByExactMatch ==
    \A t \in TaskNames :
        generated # << >> /\ taskType[t] \notin TemplateTypes
            => generated = GenericSteps

\* the step performs the irreversible external effect: it is the one that
\* sends the email or publishes the post
performs_effect(step) == step.action_type \in HandlerTypes

\* C23: in a generated plan a step carries needs_approval exactly when it is
\* the step that sends the email or publishes the post.
C23_ApprovalOnEffectStep ==
    \A k \in 1..Len(generated) :
        generated[k].needs_approval <=> performs_effect(generated[k])

\* C24: the plan generated for type "email" has at least 4 steps and at
\* least one of them carries needs_approval.
C24_EmailPlan ==
    \A t \in TaskNames :
        taskType[t] = "email" /\ generated # << >> =>
            /\ Len(generated) >= 4
            /\ \E k \in 1..Len(generated) : generated[k].needs_approval

C24_Witness ==
    \E t \in TaskNames : taskType[t] = "email" /\ Len(generated) = 5

\* the decisions a text is marked with
marks(c) ==
    {st \in {"approved", "rejected", "needs_edit"} :
        \/ st = "approved" /\ marked(c, "approve", "status: approved")
        \/ st = "rejected" /\ marked(c, "reject", "status: rejected")
        \/ st = "needs_edit" /\ marked(c, "edit", "status: needs_edit")}

\* the gate classifies artifact a in this step
Classifies(a) ==
    /\ gpc = "scan" /\ a \in gscan /\ a \notin gscan' /\ crashes' = crashes
    /\ a \notin processed_files /\ a \in folder["Pending_Approval"]

\* C26: a text with no decision mark, or with more than one (the boxes of
\* APPROVE and of REJECT both checked), is classified as Pending: the gate
\* leaves the artifact where it is, invokes nothing and returns no result for it.
C26_AmbiguousIsPending ==
    [][\A a \in ApprovalNames :
          Classifies(a) /\ Cardinality(marks(content[a])) # 1 =>
              /\ gpc' = "scan"
              /\ folder' = folder
              /\ gresult' = gresult
              /\ gcalls' = gcalls]_vars

\* C27: an artifact the gate handled as Approved has left Pending_Approval;
\* it is in Done when a registered handler returned, in Approved with the
\* error in the result when the handler raised, and in Approved with the
\* "manual execution required" result and no error when no handler is
\* registered for its type.
C27_ApprovedOutcomes ==
    \A a \in ApprovalNames :
        gresult[a].status = "approved" =>
            /\ a \notin folder["Pending_Approval"]
            /\ IF artType[a] \notin gate_handlers
               THEN /\ a \in folder["Approved"] /\ a \notin folder["Done"]
                    /\ gresult[a].action_result = "manual"
                    /\ ~gresult[a].action_error
                    /\ gcalls[a] = 0
               ELSE \/ /\ a \in folder["Done"] /\ a \notin folder["Approved"]
                       /\ gresult[a].action_result = "handler"
                       /\ ~gresult[a].action_error
                    \/ /\ a \in folder["Approved"] /\ a \notin folder["Done"]
                       /\ gresult[a].action_error

C27_Witness ==
    \E a \in ApprovalNames :
        /\ gresult[a].status = "approved"
        /\ gresult[a].action_error
        /\ a \in folder["Approved"]

\* C28: when _handle_rejection has run to its end on an artifact, the text
\* in Rejected ends with the rejection note (and the reason when the text
\* held one), the artifact is in Rejected and not in Pending_Approval, and no
\* handler has been invoked for it.
C28_RejectedOutcome ==
    [][gpc = "unlink" /\ gpc' = "scan" /\ gfile \in folder["Pending_Approval"] =>
          /\ gfile \in folder'["Rejected"]
          /\ gfile \notin folder'["Pending_Approval"]
          /\ has_word(content'[gfile], "**rejected:**")
          /\ gresult'[gfile].status = "rejected"
          /\ has_word(content'[gfile], "reason:") <=> gresult'[gfile].reason = "given"
          /\ gcalls'[gfile] = 0]_vars

C28_Witness ==
    \E a \in ApprovalNames :
        /\ gresult[a] = GateResult("rejected", "none", FALSE, "given")
        /\ a \in folder["Rejected"]
        /\ a \notin folder["Pending_Approval"]

C29_WaitBlocksOnlyItsTask ==
    pc = "wait" /\ waited >= loop_sleep => OtherTask \notin folder["Needs_Action"]

\* C30: with the record of its task in Quarantine, the executor at the head
\* of the step loop does not start the next step.
C30_StopsWhenMovedAway ==
    [][cur # NoTask /\ cur \in folder["Quarantine"] /\ pc = "step" /\ attempt = 0
          => runExecuted' = runExecuted]_vars

\* the file in which a scheduler keeps its last-run times
persisted(by) == IF by = "runner" THEN state_file ELSE last_run_file

\* C31: after a run of a scheduled task, whether its action succeeded,
\* failed or timed out, the persisted last-run time of the task is the time
\* of that run.
C31_LastRunAlwaysUpdated ==
    ran # NoRun =>
        /\ ran.task \in DOMAIN persisted(ran.by)
        /\ persisted(ran.by)[ran.task] = ran.at

\* C32: a restart leaves the error counts and last-error times of the circuit
\* breaker and the last-run times of the schedulers as they were, so that a
\* circuit that was open is open after the restart.
C32_StateSurvivesRestart ==
    [][crashes' = crashes + 1 =>
          /\ error_counts' = error_counts
          /\ last_error_time' = last_error_time
          /\ state' = state
          /\ last_run' = last_run
          /\ \A op \in OperationKeys :
                is_circuit_open(error_counts, op) => is_circuit_open(error_counts', op)]_vars

\* C33: verify_log_integrity counts every entry as valid or invalid, reports
\* "valid" exactly when no entry is invalid, and the entries it counts as
\* invalid are the altered ones: a journal that log() wrote and nobody
\* altered verifies as valid.
C33_IntegrityIffUnaltered ==
    verified # NotVerified =>
        /\ verified.valid + verified.invalid = verified.total_events
        /\ verified.integrity = "valid" <=> verified.invalid = 0
        /\ verified.invalid = Cardinality(verified.altered)

\* C34: when the approval file the executor is waiting on is in Approved,
\* the wait ends with the answer approved: the executor observes the approval
\* in its next pass and goes on to the action of the step.
C34_ApprovalObservedWhileWaiting ==
    [][(/\ pc \in {"wait", "sleep"}
        /\ approval_file \in folder["Approved"]
        /\ pc' \notin {"wait", "sleep"}
        /\ crashes' = crashes) =>
           /\ approval_result' = "approved"
           /\ pc' = "act"]_vars

\* C35: the count of an operation goes down only in a handle_error for that
\* operation that comes more than the reset window after its last counted
\* error (the count is then 1, the new error) or in reset_circuit (the count
\* is then 0); a handle_error for an operation whose circuit is open records
\* the time of the error, and when it comes within the window of the last one
\* the circuit is still open and the alert is forced.
C35_ResetIsLazy ==
    [][/\ \A op \in OperationKeys :
            get(error_counts', op) < get(error_counts, op) =>
               \/ /\ IsCall
                  /\ rcall'.operation = op
                  /\ now' - last_error_time[op] > circuit_breaker_reset
                  /\ error_counts'[op] = 1
               \/ /\ nresets' = nresets + 1
                  /\ error_counts'[op] = 0
       /\ (IsCall /\ is_circuit_open(error_counts, rcall'.operation)) =>
            /\ last_error_time'[rcall'.operation] = now'
            /\ now' - last_error_time[rcall'.operation] <= circuit_breaker_reset =>
                 /\ is_circuit_open(error_counts', rcall'.operation)
                 /\ rres'.applied = "circuit"]_vars

C35_Witness ==
    \E op \in OperationKeys :
        /\ get(error_counts, op) > circuit_breaker_threshold
        /\ last_error_time[op] = now
        /\ rres.applied = "circuit"

\* C36: a pass of the executor's poll over a step approval in which the box
\* of REJECT is checked does not resolve to approved; with the box of REJECT
\* the only one checked the answer is rejected and the step is Skipped.
C36_RejectBoxRejects ==
    [][(/\ pc = "wait"
        /\ pc' # "wait"
        /\ crashes' = crashes
        /\ approval_file \in folder["Pending_Approval"]
        /\ "rejected" \in marks(content[approval_file])) =>
           /\ approval_result' # "approved"
           /\ marks(content[approval_file]) = {"rejected"} =>
                (approval_result' = "rejected" /\ step_result' = "skipped")]_vars

\* C37: a task is planned by at most one of the two subsystems: a task for
\* which the orchestrator has written a plan has no plan of the executor.
C37_OnePlanPerTask ==
    \A t \in TaskNames : t \in orch_plans => planFile[t].state = "none"

TerminalPartitions == {"Done", "Failed", "Rejected", "Quarantine"}

\* C38: under fair scheduling of the orchestrator and the executor every task
\* in Needs_Action eventually lies in a terminal partition.
C38_EveryTaskTerminates ==
    \A t \in TaskNames :
        (t \in folder["Needs_Action"]) ~>
            (\E p \in TerminalPartitions : t \in folder[p])

\* C39: an alert file written into Needs_Action/Alerts is not taken as a
\* task: no plan is written for it and it is not moved out of its folder.
C39_AlertsAreNotTasks ==
    \A a \in alerts :
        /\ a \notin DOMAIN alert_at
        /\ \A by \in {"orchestrator", "executor"} : <<by, a>> \notin alert_plans

\* the partitions artifact a lies in
partitions_of(f, a) == {p \in Partitions : a \in f[p]}

\* C40: with the gate's scan and the executor's poll running on the same
\* step approval, the answer the executor's wait ends with is the decision
\* the human marked, and once neither of the two is working on the artifact
\* it lies in exactly one partition.
C40_RaceKeepsDecision ==
    [][/\ (/\ pc = "wait"
           /\ pc' # "wait"
           /\ approval_result' # "none") =>
              /\ marks(content[approval_file]) = {"approved"} =>
                     approval_result' = "approved"
              /\ marks(content[approval_file]) = {"rejected"} =>
                     approval_result' = "rejected"
       /\ \A a \in ApprovalNames :
            (/\ content'[a] # NoContent
             /\ a # approval_file'
             /\ a # gfile') => Cardinality(partitions_of(folder', a)) <= 1]_vars

====
